---- MODULE Spec2Model ----
(***************************************************************************)
(* Model of the retrieval-augmented question-answering pipeline of         *)
(* multimodal_rag_jina.py, of the functions it calls in preprocess_docs.py *)
(* (load_docs, set_embeddings, add_doc) and of check_keys in utils.py.     *)
(*                                                                         *)
(* Four specifications share the variables:                                *)
(*   Spec     the module-level pipeline of multimodal_rag_jina.py          *)
(*   SpecKeys check_keys called repeatedly on an arbitrary environment     *)
(*   SpecCtx  the context assembly of generate_answer_with_gpt4 applied to *)
(*            an arbitrary ranked result sequence                          *)
(*   SpecLib  set_embeddings / add_doc called repeatedly by one process    *)
(* Python strings are sequences of one-character strings.                  *)
(***************************************************************************)
EXTENDS Integers, Sequences, FiniteSets, TLC

VARIABLES pc, failedAt, env, env0, prompts, calls,
          doc, vector_store, uuids, nextId, clients, addDocOutcome, addDocArgs,
          results, context, answer, log, net, events, handles, insertedVia

vars == <<pc, failedAt, env, env0, prompts, calls,
          doc, vector_store, uuids, nextId, clients, addDocOutcome, addDocArgs,
          results, context, answer, log, net, events, handles, insertedVia>>

keyVars == <<env, env0, prompts, calls>>
storeVarsNoClients == <<doc, vector_store, uuids, nextId, addDocOutcome, addDocArgs>>
storeVars == <<doc, vector_store, uuids, nextId, clients, addDocOutcome, addDocArgs>>
queryVars == <<results, context, answer>>
traceVars == <<log, net, events>>
libVars == <<handles, insertedVia>>

(***************************************************************************)
(* Bounds                                                                  *)
(***************************************************************************)
MaxChunks == 4
MaxResults == 3
MaxCalls == 2
MaxHandles == 2
MaxLibDoc == 2

(***************************************************************************)
(* Environment variables and check_keys (utils.py)                         *)
(***************************************************************************)
UNSTRUCTURED_API_KEY == "UNSTRUCTURED_API_KEY"
OPENAI_API_KEY == "OPENAI_API_KEY"
JINA_API_KEY == "JINA_API_KEY"
KeyNames == {UNSTRUCTURED_API_KEY, OPENAI_API_KEY, JINA_API_KEY}

\* marks a name that is not in os.environ
Absent == "<absent>"
\* what getpass can return, and what a key can already hold
KeyValues == {"", "k1", "k2"}

\* check_keys without the guard on OPENAI_API_KEY: it always prompts for it
check_keys_noguard(e, p, in1, in2) ==
    LET e1 == IF e[UNSTRUCTURED_API_KEY] = Absent
              THEN [e EXCEPT ![UNSTRUCTURED_API_KEY] = in1] ELSE e
        p1 == IF e[UNSTRUCTURED_API_KEY] = Absent
              THEN [p EXCEPT ![UNSTRUCTURED_API_KEY] = @ + 1] ELSE p
    IN [env |-> [e1 EXCEPT ![OPENAI_API_KEY] = in2],
        prompts |-> [p1 EXCEPT ![OPENAI_API_KEY] = @ + 1]]

\* check_keys(): e is os.environ, p counts the getpass prompts per name,
\* in1 and in2 are what getpass returns for the first and the second prompt
check_keys(e, p, in1, in2) ==
    LET e1 == IF e[UNSTRUCTURED_API_KEY] = Absent
              THEN [e EXCEPT ![UNSTRUCTURED_API_KEY] = in1] ELSE e
        p1 == IF e[UNSTRUCTURED_API_KEY] = Absent
              THEN [p EXCEPT ![UNSTRUCTURED_API_KEY] = @ + 1] ELSE p
        e2 == IF e1[OPENAI_API_KEY] = Absent
              THEN [e1 EXCEPT ![OPENAI_API_KEY] = in2] ELSE e1
        p2 == IF e1[OPENAI_API_KEY] = Absent
              THEN [p1 EXCEPT ![OPENAI_API_KEY] = @ + 1] ELSE p1
    IN [env |-> e2, prompts |-> p2]

\* check_keys() when the getpass call for name k raises (no terminal, EOF):
\* the assignments before that prompt have been made, the exception leaves
\* check_keys. Enabled only for a name that is prompted for.
check_keys_raises(e, p, in1, k) ==
    IF k = UNSTRUCTURED_API_KEY
    THEN [env |-> e, prompts |-> [p EXCEPT ![UNSTRUCTURED_API_KEY] = @ + 1]]
    ELSE check_keys(e, p, in1, Absent)

\* the names check_keys prompts for in environment e
Prompted(e) == {k \in {UNSTRUCTURED_API_KEY, OPENAI_API_KEY} : e[k] = Absent}

NoPrompts == [k \in KeyNames |-> 0]

(***************************************************************************)
(* Strings, chunks and the context assembly of generate_answer_with_gpt4   *)
(* (multimodal_rag_jina.py)                                                *)
(***************************************************************************)
DigitChar == <<"0", "1", "2", "3", "4", "5", "6", "7", "8", "9">>

RECURSIVE IntToStr(_)
\* str(n) of a non-negative int, as the f-string renders it
IntToStr(n) ==
    IF n < 10 THEN <<DigitChar[n + 1]>>
    ELSE IntToStr(n \div 10) \o <<DigitChar[(n % 10) + 1]>>

FILE_NAME == "relatorio_b3_2023.pdf"

\* chunk texts (page_content) and page numbers the loader can deliver
Texts == {<<"a">>, <<"b", "\n", "\n", "c">>}
PageNumbers == {1, 5, 12}

\* metadata is a dict: a function whose domain holds the keys that are present
Metadatas == {[filename |-> FILE_NAME]}
             \cup {[filename |-> FILE_NAME, page_number |-> n] : n \in PageNumbers}
Documents == [page_content : Texts, metadata : Metadatas]

\* the chunks of the pipeline runs (a subset of Documents that keeps the runs small)
PipelineDocuments ==
    {d \in Documents : d.page_content = <<"a">>
                       /\ ("page_number" \in DOMAIN d.metadata => d.metadata.page_number = 1)}
    \cup {d \in Documents : d.page_content # <<"a">> /\ "page_number" \notin DOMAIN d.metadata}

SeqsUpTo(S, n) == UNION {[1..m -> S] : m \in 0..n}

\* f"{doc.metadata.get('page_number')}": without the default, an absent key renders as None
PageFieldNoDefault(d) ==
    IF "page_number" \in DOMAIN d.metadata
    THEN IntToStr(d.metadata.page_number)
    ELSE <<"N", "o", "n", "e">>

\* f"{doc.metadata.get('page_number', 'Unknown')}"
PageField(d) ==
    IF "page_number" \in DOMAIN d.metadata
    THEN IntToStr(d.metadata.page_number)
    ELSE <<"U", "n", "k", "n", "o", "w", "n">>

\* f"Page {doc.metadata.get('page_number', 'Unknown')}: {doc.page_content}"
Entry(d) == <<"P", "a", "g", "e", " ">> \o PageField(d) \o <<":", " ">> \o d.page_content

RECURSIVE Join(_, _)
\* sep.join(parts)
Join(sep, parts) ==
    IF parts = <<>> THEN <<>>
    ELSE IF Len(parts) = 1 THEN parts[1]
    ELSE parts[1] \o sep \o Join(sep, Tail(parts))

RECURSIVE SortedByPage(_)
\* sorted(retrieved_docs, key=page number): insertion sort, absent pages last
SortedByPage(ds) ==
    IF ds = <<>> THEN <<>>
    ELSE LET key(d) == IF "page_number" \in DOMAIN d.metadata THEN d.metadata.page_number ELSE 1000
             rest == SortedByPage(Tail(ds))
             before == SelectSeq(rest, LAMBDA d : key(d) < key(ds[1]))
             after == SelectSeq(rest, LAMBDA d : key(d) >= key(ds[1]))
         IN before \o <<ds[1]>> \o after

\* the context of a result list that was first put in page order
ContextPageOrder(retrieved_docs) ==
    Join(<<"\n", "\n">>, [i \in 1..Len(SortedByPage(retrieved_docs)) |-> Entry(SortedByPage(retrieved_docs)[i])])

\* context = "\n\n".join([f"Page ...: ..." for doc in retrieved_docs])
Context(retrieved_docs) ==
    Join(<<"\n", "\n">>, [i \in 1..Len(retrieved_docs) |-> Entry(retrieved_docs[i])])

NotBuilt == <<"<not built>">>

(***************************************************************************)
(* The in-memory vector index behind QdrantClient(":memory:") and          *)
(* QdrantVectorStore, as the index collaborator is described: create       *)
(* collection, upsert, similarity search returning a ranked list.          *)
(* A client is a function from collection names to collections; a          *)
(* collection is a set of points with pairwise different ids.              *)
(***************************************************************************)
COLLECTION_NAME == "qdrant_test"
CollectionNames == {COLLECTION_NAME, "other"}
NoStore == [client |-> 0, collection_name |-> ""]

\* the vector the embedding model returns for a text (one vector per text)
Embed(text) == [model |-> "jina-embeddings-v2-base-en", text |-> text]

\* upsert of one point: a point with the same id is replaced
Upsert(coll, pt) == {q \in coll : q.id # pt.id} \cup {pt}

RECURSIVE UpsertAll(_, _, _, _)
\* upsert of the points (ids[i], Embed(d[i]), d[i]) for i = from..Len(d), in order
UpsertAll(coll, d, ids, from) ==
    IF from > Len(d) \/ from > Len(ids) THEN coll
    ELSE UpsertAll(Upsert(coll, [id |-> ids[from],
                                 vector |-> Embed(d[from].page_content),
                                 payload |-> d[from]]),
                   d, ids, from + 1)

\* vector_store.add_documents(documents=d, ids=ids) on collection coll
AddDocuments(coll, d, ids) == UpsertAll(coll, d, ids, 1)

Min(a, b) == IF a < b THEN a ELSE b

\* vector_store.similarity_search(query, k): the k nearest points, nearest
\* first. The scores are the index's business: every ranking of every
\* choice of min(k, size) points is a possible answer.
SimilaritySearch(coll, k) ==
    LET m == Min(k, Cardinality(coll))
        ranked == {r \in [1..m -> coll] : \A i, j \in 1..m : r[i] = r[j] => i = j}
    IN {[i \in 1..m |-> r[i].payload] : r \in ranked}

(***************************************************************************)
(* set_embeddings and add_doc (preprocess_docs.py)                         *)
(***************************************************************************)
\* a set_embeddings that keeps one client for the process and creates the
\* collection only when the client does not have it yet
SetEmbeddingsSharedClient(cs, name) ==
    [clients |-> IF cs = <<>> THEN <<(name :> {})>>
                 ELSE IF name \in DOMAIN cs[1] THEN cs
                 ELSE [cs EXCEPT ![1] = @ @@ (name :> {})],
     vector_store |-> [client |-> 1, collection_name |-> name]]

\* client = QdrantClient(":memory:"); client.create_collection(name, ...);
\* vector_store = QdrantVectorStore(client, name, embeddings):
\* cs are the clients the process has made so far
SetEmbeddingsStore(cs, name) ==
    [clients |-> Append(cs, (name :> {})),
     vector_store |-> [client |-> Len(cs) + 1, collection_name |-> name]]

\* [str(uuid4())] * len(doc): one identifier, repeated
GenerateIdsRepeated(n, next) == [i \in 1..n |-> next + 1]

\* [str(uuid4()) for _ in range(len(doc) - 1)]
GenerateIdsShort(n, next) == [i \in 1..(n - 1) |-> next + i]

\* uuids = [str(uuid4()) for _ in range(len(doc))]: the identifiers are the
\* integers after next, the number of uuid4() calls made so far
GenerateIds(n, next) == [i \in 1..n |-> next + i]

\* the requests set_embeddings sends to the index even when the key lookup fails
SetupRequestsClientFirst(e) == <<"vector_index">>

\* the requests set_embeddings sends to its collaborators in environment e:
\* os.environ["JINA_API_KEY"] is read before the client is made
SetupRequests(e) == IF e[JINA_API_KEY] = Absent THEN <<>> ELSE <<"vector_index">>

\* the exception classes the batch insert can raise, as add_doc tells them apart
InsertErrors == {"ValueError", "TypeError", "ConnectionError", "Exception"}

\* the except clause of add_doc that takes exception e, as the logged message
ErrorMessage(e) ==
    CASE e = "ValueError" -> "There's an error while handling the document list"
      [] e = "TypeError" -> "Type error while handling document list"
      [] e = "ConnectionError" -> "Connection error while communicating with Vector Store"
      [] OTHER -> "Unexpected error ocurred whhile adding document"

Collection(cs, store) == cs[store.client][store.collection_name]

(***************************************************************************)
(* The pipeline (multimodal_rag_jina.py, module level)                     *)
(***************************************************************************)
SearchK == 3
Answers == {"", "The document has 10 pages."}
NoAnswer == "<no answer>"
PipelineInputs == {"k1"}

\* a pipeline that runs the insert before the setup
SuccessorIndexFirst(step) ==
    CASE step = "load" -> "index"
      [] step = "index" -> "setup"
      [] step = "setup" -> "search"
      [] step = "search" -> "generate"
      [] OTHER -> "done"

\* the statement order of the module: the step that follows a step
Successor(step) ==
    CASE step = "load" -> "setup"
      [] step = "setup" -> "index"
      [] step = "index" -> "search"
      [] step = "search" -> "generate"
      [] OTHER -> "done"

\* a pipeline that catches the exception of a step and goes on
NextOnRaiseSwallow(step) == Successor(step)

\* no statement of the module is inside a try: an exception that leaves a
\* step ends the process
NextOnRaise(step) == "crashed"

\* loguru entries: level, message, and the value the message interpolates
Info(m) == [level |-> "INFO", msg |-> m, arg |-> ""]
Success(m, a) == [level |-> "SUCCESS", msg |-> m, arg |-> a]
Error(m, a) == [level |-> "ERROR", msg |-> m, arg |-> a]

\* an exception leaves step: the process ends there
Raise(step) ==
    /\ pc' = NextOnRaise(step)
    /\ failedAt' = step
    /\ events' = Append(events, <<"raise", step>>)

\* load_dotenv(); check_keys()
StartUp ==
    /\ pc = "startup"
    /\ \E in1, in2 \in PipelineInputs :
         LET r == check_keys(env, prompts, in1, in2)
         IN /\ env' = r.env
            /\ prompts' = r.prompts
    /\ calls' = calls + 1
    /\ pc' = "load"
    /\ UNCHANGED <<failedAt, env0, storeVars, queryVars, traceVars, libVars>>

\* check_keys() when a getpass prompt raises
StartUpRaise ==
    /\ pc = "startup"
    /\ \E k \in Prompted(env), in1 \in PipelineInputs :
         LET r == check_keys_raises(env, prompts, in1, k)
         IN /\ env' = r.env
            /\ prompts' = r.prompts
    /\ pc' = "crashed"
    /\ failedAt' = "check_keys"
    /\ UNCHANGED <<env0, calls, storeVars, queryVars, traceVars, libVars>>

\* openai.api_key = ...; logger.info; load_docs(FILE_PATH) up to the request
\* loader.load() sends to the partitioning service
LoadBegin ==
    /\ pc = "load"
    /\ env[OPENAI_API_KEY] # Absent
    /\ log' = Append(log, Info("Loading document"))
    /\ events' = Append(events, <<"begin", "load">>)
    /\ net' = Append(net, "partition")
    /\ pc' = "load_wait"
    /\ UNCHANGED <<failedAt, keyVars, storeVars, queryVars, libVars>>

\* loader.load() returns the chunks; logger.success; doc = ...
LoadReturn ==
    /\ pc = "load_wait"
    /\ \E d \in SeqsUpTo(PipelineDocuments, MaxChunks) : doc' = d
    /\ log' = Append(log, Success("Document sucessfully loaded", FILE_NAME))
    /\ events' = Append(events, <<"return", "load">>)
    /\ pc' = Successor("load")
    /\ UNCHANGED <<failedAt, keyVars, vector_store, uuids, nextId, clients,
                   addDocOutcome, addDocArgs, queryVars, net, libVars>>

\* loader.load() raises (service unreachable, file rejected)
LoadRaise ==
    /\ pc = "load_wait"
    /\ Raise("load")
    /\ UNCHANGED <<keyVars, storeVars, queryVars, log, net, libVars>>

\* set_embeddings(doc=doc, collection_name="qdrant_test") is called
SetupBegin ==
    /\ pc = "setup"
    /\ log' = Append(log, Info("Setting Jina Model."))
    /\ events' = Append(events, <<"begin", "setup">>)
    /\ pc' = "setup_run"
    /\ UNCHANGED <<failedAt, keyVars, storeVars, queryVars, net, libVars>>

\* set_embeddings runs to its return
SetupReturn ==
    /\ pc = "setup_run"
    /\ env[JINA_API_KEY] # Absent
    /\ LET r == SetEmbeddingsStore(clients, COLLECTION_NAME)
       IN /\ clients' = r.clients
          /\ vector_store' = r.vector_store
    /\ uuids' = GenerateIds(Len(doc), nextId)
    /\ nextId' = nextId + Len(doc)
    /\ log' = log \o <<Info("Creating collection and setting Client."),
                       Info("Setting Vector Store object."),
                       Info("Generating ids for the document content."),
                       Success("Qdrant Embedding Environment set!", "")>>
    /\ net' = net \o SetupRequests(env)
    /\ events' = Append(events, <<"return", "setup">>)
    /\ pc' = Successor("setup")
    /\ UNCHANGED <<failedAt, keyVars, doc, addDocOutcome, addDocArgs, queryVars, libVars>>

\* os.environ["JINA_API_KEY"] raises KeyError
SetupRaise ==
    /\ pc = "setup_run"
    /\ env[JINA_API_KEY] = Absent
    /\ net' = net \o SetupRequests(env)
    /\ Raise("setup")
    /\ UNCHANGED <<keyVars, storeVars, queryVars, log, libVars>>

\* logger.info; add_doc(vector_store, doc, uuids) up to the batch insert:
\* doc[0] raises IndexError on an empty list, before the try
IndexBegin ==
    /\ pc = "index"
    /\ log' = Append(log, Info("Adding Documents to vector store."))
    /\ addDocArgs' = [doc |-> doc, ids |-> uuids]
    /\ IF doc = <<>>
       THEN /\ pc' = NextOnRaise("index")
            /\ failedAt' = "index"
            /\ events' = events \o <<<<"begin", "index">>, <<"raise", "index">>>>
            /\ net' = net
       ELSE /\ pc' = "index_wait"
            /\ failedAt' = failedAt
            /\ events' = Append(events, <<"begin", "index">>)
            /\ net' = Append(net, "embedding")
    /\ UNCHANGED <<keyVars, doc, vector_store, uuids, nextId, clients, addDocOutcome,
                   queryVars, libVars>>

\* vector_store.add_documents returns; logger.success
IndexReturnOk ==
    /\ pc = "index_wait"
    /\ vector_store # NoStore
    /\ clients' = [clients EXCEPT ![vector_store.client][vector_store.collection_name] =
                       AddDocuments(@, addDocArgs.doc, addDocArgs.ids)]
    /\ addDocOutcome' = "added"
    /\ net' = Append(net, "vector_index")
    /\ log' = Append(log, Success("Document added to vector store", FILE_NAME))
    /\ events' = Append(events, <<"return", "index">>)
    /\ pc' = Successor("index")
    /\ UNCHANGED <<failedAt, keyVars, doc, vector_store, uuids, nextId, addDocArgs,
                   queryVars, libVars>>

\* vector_store.add_documents raises e after the first m chunks are stored;
\* the matching except clause logs it and add_doc returns
IndexReturnError ==
    /\ pc = "index_wait"
    /\ vector_store # NoStore
    /\ \E e \in InsertErrors, m \in 0..(Len(addDocArgs.doc) - 1) :
         /\ clients' = [clients EXCEPT ![vector_store.client][vector_store.collection_name] =
                            AddDocuments(@, SubSeq(addDocArgs.doc, 1, m), addDocArgs.ids)]
         /\ addDocOutcome' = e
         /\ net' = IF m > 0 THEN Append(net, "vector_index") ELSE net
         /\ log' = Append(log, Error(ErrorMessage(e), e))
    /\ events' = Append(events, <<"return", "index">>)
    /\ pc' = Successor("index")
    /\ UNCHANGED <<failedAt, keyVars, doc, vector_store, uuids, nextId, addDocArgs,
                   queryVars, libVars>>

\* vector_store.similarity_search(query_model, k=3) up to the request that
\* embeds the query
SearchBegin ==
    /\ pc = "search"
    /\ events' = Append(events, <<"begin", "search">>)
    /\ net' = Append(net, "embedding")
    /\ pc' = "search_wait"
    /\ UNCHANGED <<failedAt, keyVars, storeVars, queryVars, log, libVars>>

\* the index answers: results = ...
SearchReturn ==
    /\ pc = "search_wait"
    /\ vector_store # NoStore
    /\ \E r \in SimilaritySearch(Collection(clients, vector_store), SearchK) : results' = r
    /\ net' = Append(net, "vector_index")
    /\ events' = Append(events, <<"return", "search">>)
    /\ pc' = Successor("search")
    /\ UNCHANGED <<failedAt, keyVars, storeVars, context, answer, log, libVars>>

\* the embedding request or the search raises
SearchRaise ==
    /\ pc = "search_wait"
    /\ Raise("search")
    /\ UNCHANGED <<keyVars, storeVars, queryVars, log, net, libVars>>

\* generate_answer_with_gpt4(query_model, results) up to the request to the model
GenerateBegin ==
    /\ pc = "generate"
    /\ context' = Context(results)
    /\ events' = Append(events, <<"begin", "generate">>)
    /\ net' = Append(net, "generative")
    /\ pc' = "generate_wait"
    /\ UNCHANGED <<failedAt, keyVars, storeVars, results, answer, log, libVars>>

\* the model answers; answer = ...; logger.success(f"Answer: {answer}")
GenerateReturn ==
    /\ pc = "generate_wait"
    /\ \E a \in Answers :
         /\ answer' = a
         /\ log' = Append(log, Success("Answer", a))
    /\ events' = Append(events, <<"return", "generate">>)
    /\ pc' = Successor("generate")
    /\ UNCHANGED <<failedAt, keyVars, storeVars, results, context, net, libVars>>

\* openai.chat.completions.create raises
GenerateRaise ==
    /\ pc = "generate_wait"
    /\ Raise("generate")
    /\ UNCHANGED <<keyVars, storeVars, queryVars, log, net, libVars>>

PipelineEnvs == [KeyNames -> {Absent, "k1"}]

InitCommon ==
    /\ failedAt = "none"
    /\ prompts = NoPrompts
    /\ calls = 0
    /\ doc = <<>>
    /\ vector_store = NoStore
    /\ uuids = <<>>
    /\ nextId = 0
    /\ clients = <<>>
    /\ addDocOutcome = "none"
    /\ addDocArgs = [doc |-> <<>>, ids |-> <<>>]
    /\ context = NotBuilt
    /\ answer = NoAnswer
    /\ log = <<>>
    /\ net = <<>>
    /\ events = <<>>
    /\ handles = <<>>
    /\ insertedVia = {}

\* the process starts with whatever environment load_dotenv leaves
Init ==
    /\ InitCommon
    /\ pc = "startup"
    /\ env \in PipelineEnvs
    /\ env0 = env
    /\ results = <<>>

Next ==
    \/ StartUp \/ StartUpRaise
    \/ LoadBegin \/ LoadReturn \/ LoadRaise
    \/ SetupBegin \/ SetupReturn \/ SetupRaise
    \/ IndexBegin \/ IndexReturnOk \/ IndexReturnError
    \/ SearchBegin \/ SearchReturn \/ SearchRaise
    \/ GenerateBegin \/ GenerateReturn \/ GenerateRaise

Spec == Init /\ [][Next]_vars

(***************************************************************************)
(* check_keys called again and again by one process                        *)
(***************************************************************************)
\* check_keys() returns
KeysCall ==
    /\ pc = "keys"
    /\ calls < MaxCalls
    /\ \E in1, in2 \in KeyValues :
         LET r == check_keys(env, prompts, in1, in2)
         IN /\ env' = r.env
            /\ prompts' = r.prompts
    /\ calls' = calls + 1
    /\ UNCHANGED <<pc, failedAt, env0, storeVars, queryVars, traceVars, libVars>>

\* a getpass prompt of check_keys() raises: the process ends
KeysCallRaise ==
    /\ pc = "keys"
    /\ calls < MaxCalls
    /\ \E k \in Prompted(env), in1 \in KeyValues :
         LET r == check_keys_raises(env, prompts, in1, k)
         IN /\ env' = r.env
            /\ prompts' = r.prompts
    /\ pc' = "crashed"
    /\ failedAt' = "check_keys"
    /\ UNCHANGED <<env0, calls, storeVars, queryVars, traceVars, libVars>>

InitKeys ==
    /\ InitCommon
    /\ pc = "keys"
    /\ env \in [KeyNames -> {Absent} \cup KeyValues]
    /\ env0 = env
    /\ results = <<>>

NextKeys == KeysCall \/ KeysCallRaise

SpecKeys == InitKeys /\ [][NextKeys]_vars

(***************************************************************************)
(* generate_answer_with_gpt4 applied to an arbitrary ranked result list    *)
(***************************************************************************)
AllKeysSet == [k \in KeyNames |-> "k1"]

InitCtx ==
    /\ InitCommon
    /\ pc = "generate"
    /\ env = AllKeysSet
    /\ env0 = env
    /\ results \in SeqsUpTo(Documents, MaxResults)

NextCtx == GenerateBegin \/ GenerateReturn \/ GenerateRaise

SpecCtx == InitCtx /\ [][NextCtx]_vars

(***************************************************************************)
(* set_embeddings and add_doc called again and again by one process. A     *)
(* handle keeps what one set_embeddings call returned, the chunks it was   *)
(* called for, and whether add_doc has been called with it.                *)
(***************************************************************************)
\* one kind of chunk is enough here: what the chunks say plays no part
LibDocuments == {d \in PipelineDocuments : d.page_content = <<"a">> /\ "page_number" \in DOMAIN d.metadata}

\* vector_store, uuids = set_embeddings(doc=d, collection_name=name)
LibSetEmbeddings ==
    /\ pc = "lib"
    /\ Len(handles) < MaxHandles
    /\ env[JINA_API_KEY] # Absent
    /\ \E d \in SeqsUpTo(LibDocuments, MaxLibDoc), name \in CollectionNames :
         LET r == SetEmbeddingsStore(clients, name)
         IN /\ clients' = r.clients
            /\ handles' = Append(handles, [store |-> r.vector_store, doc |-> d,
                                           ids |-> GenerateIds(Len(d), nextId),
                                           added |-> FALSE])
            /\ nextId' = nextId + Len(d)
    /\ UNCHANGED <<pc, failedAt, keyVars, doc, vector_store, uuids, addDocOutcome,
                   addDocArgs, queryVars, traceVars, insertedVia>>

\* add_doc(vector_store, doc, uuids) with what handle h holds; the insert succeeds
LibAddDocOk ==
    /\ pc = "lib"
    /\ \E h \in 1..Len(handles) :
         LET hd == handles[h]
         IN /\ hd.doc # <<>>
            /\ clients' = [clients EXCEPT ![hd.store.client][hd.store.collection_name] =
                               AddDocuments(@, hd.doc, hd.ids)]
            /\ handles' = [handles EXCEPT ![h].added = TRUE]
            /\ insertedVia' = insertedVia \cup {<<h, hd.ids[i]>> : i \in 1..Len(hd.ids)}
    /\ UNCHANGED <<pc, failedAt, keyVars, storeVarsNoClients, queryVars, traceVars>>

\* the same call when the insert raises after the first m chunks are stored
LibAddDocError ==
    /\ pc = "lib"
    /\ \E h \in 1..Len(handles) :
         LET hd == handles[h]
         IN /\ hd.doc # <<>>
            /\ \E m \in 0..(Len(hd.doc) - 1) :
                 /\ clients' = [clients EXCEPT ![hd.store.client][hd.store.collection_name] =
                                    AddDocuments(@, SubSeq(hd.doc, 1, m), hd.ids)]
                 /\ insertedVia' = insertedVia \cup {<<h, hd.ids[i]>> : i \in 1..m}
            /\ handles' = [handles EXCEPT ![h].added = TRUE]
    /\ UNCHANGED <<pc, failedAt, keyVars, storeVarsNoClients, queryVars, traceVars>>

\* the same call for an empty chunk list: doc[0] raises and the process ends
LibAddDocRaise ==
    /\ pc = "lib"
    /\ \E h \in 1..Len(handles) :
         /\ handles[h].doc = <<>>
         /\ handles' = [handles EXCEPT ![h].added = TRUE]
    /\ pc' = "crashed"
    /\ failedAt' = "index"
    /\ UNCHANGED <<keyVars, storeVars, queryVars, traceVars, insertedVia>>

InitLib ==
    /\ InitCommon
    /\ pc = "lib"
    /\ env = AllKeysSet
    /\ env0 = env
    /\ results = <<>>

NextLib == LibSetEmbeddings \/ LibAddDocOk \/ LibAddDocError \/ LibAddDocRaise

SpecLib == InitLib /\ [][NextLib]_vars

(***************************************************************************)
(* Properties                                                              *)
(***************************************************************************)
Steps == <<"load", "setup", "index", "search", "generate">>
Began(step) == \E i \in 1..Len(events) : events[i] = <<"begin", step>>
Returned(step) == \E i \in 1..Len(events) : events[i] = <<"return", step>>
Begins(step) == Cardinality({i \in 1..Len(events) : events[i] = <<"begin", step>>})
AnswerLogged == \E i \in 1..Len(log) : log[i].msg = "Answer"
ErrorLogged == \E i \in 1..Len(log) : log[i].level = "ERROR"

\* C1: the steps load, setup, index, search, generate each begin at most once
\* and in that order; a step begins only after the previous one has returned,
\* so no two steps are in progress together.
C1_StrictSequence ==
    /\ Len(events) <= 2 * Len(Steps)
    /\ \A i \in 1..Len(events) :
         LET s == Steps[(i + 1) \div 2]
         IN IF i % 2 = 1
            THEN /\ events[i] = <<"begin", s>>
                 /\ i > 1 => events[i - 1] = <<"return", Steps[(i - 1) \div 2]>>
            ELSE events[i] \in {<<"return", s>>, <<"raise", s>>}
    /\ \A s \in {"load", "setup", "index", "search", "generate"} : Begins(s) <= 1

C1_Witness == pc = "done" /\ Len(events) = 10 /\ Len(doc) >= 2

\* C2 (as claimed): add_doc never raises to its caller; an error while
\* indexing is logged and the run goes on to search and generation.
C2_AddDocNeverRaises ==
    Began("index") =>
        /\ failedAt # "index"
        /\ <<"raise", "index">> \notin {events[i] : i \in 1..Len(events)}
        /\ addDocOutcome \in InsertErrors => ErrorLogged

\* C3: an exception of load, setup, search or generation ends the run at that
\* step: nothing begins after it, the step is not begun again, and no answer
\* is produced or logged. Only a failed batch insert is followed by later steps.
C3_OnlyInsertErrorsSwallowed ==
    /\ \A i \in 1..Len(events) : events[i][1] = "raise" => i = Len(events)
    /\ failedAt # "none" =>
         /\ pc = "crashed"
         /\ answer = NoAnswer
         /\ ~AnswerLogged
         /\ failedAt \in {"load", "setup", "search", "generate"} =>
              /\ events[Len(events)] = <<"raise", failedAt>>
              /\ Begins(failedAt) = 1
    /\ (addDocOutcome \in InsertErrors /\ failedAt = "none") => pc # "crashed"

C3_Witness == failedAt = "search" /\ addDocOutcome \in InsertErrors

\* C4 (as claimed): with JINA_API_KEY missing, no request is sent to any
\* collaborator before the run fails.
C4_NoRequestBeforeFailFast == env[JINA_API_KEY] = Absent => net = <<>>

\* C4 (amended): with JINA_API_KEY missing, the run gets no further than
\* set_embeddings, and the only request it ever sends is the one load_docs
\* sends to the partitioning service: none to the embedding service, the
\* vector index or the generative model.
C4_FailsInSetupBeforeItsRequests ==
    env[JINA_API_KEY] = Absent =>
        /\ \A i \in 1..Len(net) : net[i] = "partition"
        /\ Len(net) <= 1
        /\ pc \in {"startup", "load", "load_wait", "setup", "setup_run", "crashed"}
        /\ ~Returned("setup")

C4_Witness ==
    /\ env[JINA_API_KEY] = Absent
    /\ failedAt = "setup"
    /\ net = <<"partition">>

\* C5: set_embeddings returns one identifier per chunk, pairwise distinct,
\* and the pipeline hands exactly this identifier list with exactly this
\* chunk list to add_doc; after a successful insert the point stored under
\* the i-th identifier carries the i-th chunk.
C5_IdsAligned ==
    /\ Returned("setup") =>
         /\ Len(uuids) = Len(doc)
         /\ \A i, j \in 1..Len(uuids) : uuids[i] = uuids[j] => i = j
    /\ Began("index") =>
         /\ addDocArgs.doc = doc
         /\ addDocArgs.ids = uuids
         /\ Len(addDocArgs.doc) = Len(addDocArgs.ids)
    /\ addDocOutcome = "added" =>
         \A i \in 1..Len(doc) :
             \E q \in Collection(clients, vector_store) :
                 q.id = uuids[i] /\ q.payload = doc[i]

C5_Witness == addDocOutcome = "added" /\ Len(doc) = 3 /\ doc[1] # doc[2]

\* C8: after a successful add_doc of n chunks the collection holds exactly
\* the n (identifier, vector, payload) triples of the chunks, and the search
\* with k = 3 returns between 1 and min(k, n) chunks, all of them indexed
\* chunks, and exactly k of them when n >= k.
C8_StoredAndRetrieved ==
    addDocOutcome = "added" =>
        LET n == Len(doc)
            coll == Collection(clients, vector_store)
        IN /\ coll = {[id |-> uuids[i],
                       vector |-> Embed(doc[i].page_content),
                       payload |-> doc[i]] : i \in 1..n}
           /\ Cardinality(coll) = n
           /\ Returned("search") =>
                /\ Len(results) >= 1
                /\ Len(results) <= Min(SearchK, n)
                /\ n >= SearchK => Len(results) = SearchK
                /\ \A j \in 1..Len(results) : \E i \in 1..n : results[j] = doc[i]

C8_Witness ==
    /\ addDocOutcome = "added"
    /\ Returned("search")
    /\ Len(doc) = 4
    /\ Len(results) = 3

\* C9: once check_keys has returned, UNSTRUCTURED_API_KEY and OPENAI_API_KEY
\* are set; a name that was present keeps its value and is not prompted for,
\* a name that was absent is prompted for exactly once, JINA_API_KEY is never
\* prompted for or changed, and a further call changes nothing.
C9_KeysSetOnce ==
    /\ [](calls >= 1 =>
            /\ env[UNSTRUCTURED_API_KEY] # Absent
            /\ env[OPENAI_API_KEY] # Absent
            /\ \A k \in {UNSTRUCTURED_API_KEY, OPENAI_API_KEY} :
                 IF env0[k] = Absent
                 THEN prompts[k] = 1
                 ELSE prompts[k] = 0 /\ env[k] = env0[k]
            /\ env[JINA_API_KEY] = env0[JINA_API_KEY]
            /\ prompts[JINA_API_KEY] = 0)
    /\ [][calls >= 1 => (env' = env /\ prompts' = prompts)]_vars

C9_Witness ==
    /\ calls = 2
    /\ env0[UNSTRUCTURED_API_KEY] = Absent
    /\ env0[OPENAI_API_KEY] = "k2"
    /\ env0[JINA_API_KEY] = Absent
    /\ env[UNSTRUCTURED_API_KEY] = ""

\* C10: a handle that add_doc has not been called with refers to an empty
\* collection, no two set_embeddings calls return the same client, and a
\* point visible through one handle was never inserted through another, also
\* when the handles use the same collection name.
C10_FreshIsolatedCollections ==
    /\ \A h \in 1..Len(handles) :
         ~handles[h].added => Collection(clients, handles[h].store) = {}
    /\ \A g, h \in 1..Len(handles) :
         g # h =>
            /\ handles[g].store.client # handles[h].store.client
            /\ \A q \in Collection(clients, handles[h].store) : <<g, q.id>> \notin insertedVia

C10_Witness ==
    /\ Len(handles) = 2
    /\ handles[1].store.collection_name = handles[2].store.collection_name
    /\ handles[1].added
    /\ Collection(clients, handles[1].store) # {}
    /\ ~handles[2].added

HasPage(d) == "page_number" \in DOMAIN d.metadata
\* the decimal text of the page numbers in PageNumbers
PageText == (1 :> <<"1">>) @@ (5 :> <<"5">>) @@ (12 :> <<"1", "2">>)
UnknownText == <<"U", "n", "k", "n", "o", "w", "n">>
PageSlotLen(d) == IF HasPage(d) THEN Len(PageText[d.metadata.page_number]) ELSE Len(UnknownText)
\* the length of "Page " + page slot + ": " + text
EntryWidth(d) == 5 + PageSlotLen(d) + 2 + Len(d.page_content)

RECURSIVE EntryStart(_, _)
\* the position in the context at which the entry of ds[i] must begin
EntryStart(ds, i) ==
    IF i = 1 THEN 1 ELSE EntryStart(ds, i - 1) + EntryWidth(ds[i - 1]) + 2

\* the len characters of str from position from on; "<end>" past the end of str
At(str, from, len) ==
    [i \in 1..len |-> IF from + i - 1 <= Len(str) THEN str[from + i - 1] ELSE "<end>"]

\* C6: the context holds, for the i-th ranked result and at the i-th place,
\* the entry "Page <page>: <text>" of that result; consecutive entries are
\* separated by exactly "\n\n"; nothing else is in the context.
C6_ContextInRankedOrder ==
    context # NotBuilt =>
        LET n == Len(results)
        IN /\ Len(context) = IF n = 0 THEN 0
                             ELSE EntryStart(results, n) + EntryWidth(results[n]) - 1
           /\ \A i \in 1..n :
                LET d == results[i]
                    s == EntryStart(results, i)
                    w == PageSlotLen(d)
                IN /\ At(context, s, 5) = <<"P", "a", "g", "e", " ">>
                   /\ At(context, s + 5 + w, 2) = <<":", " ">>
                   /\ At(context, s + 7 + w, Len(d.page_content)) = d.page_content
                   /\ i < n => At(context, s + EntryWidth(d), 2) = <<"\n", "\n">>

C6_Witness ==
    /\ context # NotBuilt
    /\ Len(results) = 3
    /\ HasPage(results[1]) /\ results[1].metadata.page_number = 5
    /\ HasPage(results[2]) /\ results[2].metadata.page_number = 1
    /\ results[1].page_content # results[2].page_content
    /\ results[3] = results[1]

\* C7: in the context, the page slot of a result without page_number reads
\* "Unknown", and the page slot of a result with a page_number reads that
\* number in decimal, which is never "Unknown".
C7_UnknownPage ==
    context # NotBuilt =>
        \A i \in 1..Len(results) :
            LET d == results[i]
                s == EntryStart(results, i) + 5
            IN IF HasPage(d)
               THEN /\ At(context, s, PageSlotLen(d)) = PageText[d.metadata.page_number]
                    /\ At(context, s, PageSlotLen(d) + 2) # UnknownText \o <<":", " ">>
                    /\ At(context, s, Len(UnknownText)) # UnknownText
               ELSE At(context, s, Len(UnknownText) + 2) = UnknownText \o <<":", " ">>

C7_Witness ==
    /\ context # NotBuilt
    /\ Len(results) = 2
    /\ ~HasPage(results[1])
    /\ HasPage(results[2]) /\ results[2].metadata.page_number = 12
====
